---- MODULE Spec2Model ----
(***************************************************************************)
(* The policy engine of rust-agent-core (src/policy/mod.rs): a volatile    *)
(* grant table keyed by module, an allow-list fixed at construction, and   *)
(* the operations grant_permission, check_intent, revoke_module,           *)
(* clear_expired, get_permissions and is_action_permitted.                 *)
(*                                                                         *)
(* Strings are TLA+ strings; prefix tests are computed character by        *)
(* character with Len and SubSeq, as str::starts_with does.  Option<T> is  *)
(* the empty tuple (None) or a one-element tuple (Some(x)).  Time is a     *)
(* counter `now` that the environment advances between operations; every   *)
(* operation reads it once, as the code reads Utc::now() once.             *)
(***************************************************************************)
EXTENDS Integers, Sequences, FiniteSets, TLC

\* ---------------------------------------------------------------- bounds
\* Largest instant of the clock (instants are 0..MaxTime).
MaxTime == 2
\* Largest number of grants held in the table at once, over all modules.
MaxGrants == 2

\* ---------------------------------------------------------------- Option
None == << >>
Some(x) == << x >>

\* ---------------------------------------------------------------- inputs
Times == 0 .. MaxTime

\* Module names used as grant-table keys and as intent targets.
Modules == { "device", "message" }

\* Allow-lists given to PolicyEngine::new.
AllowLists == { << >>, << "device" >> }

\* The `actions` vectors callers put in a Permission.
ActionLists == { << "device" >>, << "dev", "device.control" >> }

\* The `scope` vectors callers put in a Permission.
Scopes == { << >> }

\* granted_at values callers put in a Permission (the engine never reads it).
GrantedAts == { 0 }

\* Instants callers use as expires_at: the clock starts before them, reaches
\* them and passes them.
ExpiryTimes == { 1 }

\* expires_at values callers put in a Permission.
Expiries == { None } \cup { Some(t) : t \in ExpiryTimes }

\* Intent types presented to the engine.
IntentTypes ==
    { "device", "device.control", "device.control.dim", "devicex" }

\* struct Permission
Permission ==
    [ module : Modules, actions : ActionLists, scope : Scopes,
      granted_at : GrantedAts, expires_at : Expiries ]

\* struct Intent, the fields the policy engine reads.  Callers may build an
\* Intent with Intent::new, with_permission and with_target_module, so the
\* three fields vary independently.
Intent ==
    [ intent_type : IntentTypes, requires_permission : BOOLEAN,
      target_module : { None } \cup { Some(m) : m \in Modules } ]

VARIABLES
    permissions,      \* PolicyEngine.permissions : HashMap<String, Vec<Permission>>
    allowed_modules,  \* PolicyEngine.allowed_modules : Vec<String>
    now,              \* the clock Utc::now() reads
    last              \* the last operation called: its name, argument, the
                      \* instant it read and the value it returned

vars == << permissions, allowed_modules, now, last >>

\* ---------------------------------------------------------------- strings
\* str::starts_with
starts_with(s, prefix) ==
    /\ Len(prefix) <= Len(s)
    /\ SubSeq(s, 1, Len(prefix)) = prefix

\* str::contains
str_contains(s, pat) ==
    \E i \in 1 .. (Len(s) - Len(pat) + 1) : SubSeq(s, i, i + Len(pat) - 1) = pat

\* Vec<String>::contains
vec_contains(v, x) == \E i \in 1 .. Len(v) : v[i] = x

\* ---------------------------------------------------------------- results
Ok == [ kind |-> "Ok", msg |-> "" ]
PolicyViolation(msg) == [ kind |-> "PolicyViolation", msg |-> msg ]

\* ---------------------------------------------------------------- PolicyEngine
\* HashMap::new()
EmptyMap == [ m \in {} |-> << >> ]

\* Number of grants stored under the modules of D.
RECURSIVE stored(_, _)
stored(table, D) ==
    IF D = {} THEN 0
    ELSE LET m == CHOOSE x \in D : TRUE
         IN  Len(table[m]) + stored(table, D \ { m })


\* Fault: the comparison with the clock is inverted.
expired_in_check_inverted(perm, t) ==
    /\ perm.expires_at # None
    /\ perm.expires_at[1] > t


\* Fault: a grant is already skipped at the instant of its expiry (`<=` for `<`).
expired_in_check_at_instant(perm, t) ==
    /\ perm.expires_at # None
    /\ perm.expires_at[1] <= t

\* check_intent / is_action_permitted: `if expires < now { skip }`
expired_in_check(perm, t) ==
    /\ perm.expires_at # None
    /\ perm.expires_at[1] < t

\* clear_expired / get_permissions: `p.expires_at.map(|exp| exp > now).unwrap_or(true)`
retained(perm, t) ==
    IF perm.expires_at # None THEN perm.expires_at[1] > t ELSE TRUE


\* Fault: only the exact action name is accepted, no ancestor.
action_matches_exact(a, action) == a = action

\* Fault: the ancestor test forgets the '.' that ends the ancestor's name.
action_matches_bare_prefix(a, action) ==
    \/ a = action
    \/ starts_with(action, a)

\* `a == action || action.starts_with(&format!("{}.", a))`
action_matches(a, action) ==
    \/ a = action
    \/ starts_with(action, a \o ".")


\* Fault: a grant with a scope permits only what its scope lists.
actions_permit_in_scope(perm, action) ==
    /\ perm.scope = << >> \/ vec_contains(perm.scope, action)
    /\ \E i \in 1 .. Len(perm.actions) : action_matches(perm.actions[i], action)

\* `perm.actions.iter().any(|a| ...)`
actions_permit(perm, action) ==
    \E i \in 1 .. Len(perm.actions) : action_matches(perm.actions[i], action)


\* Fault: the loop gives up at the first expired grant instead of skipping it.
RECURSIVE scan_grants_stops_at_expired(_, _, _, _)
scan_grants_stops_at_expired(perms, k, intent_type, t) ==
    IF k > Len(perms) THEN FALSE
    ELSE IF expired_in_check(perms[k], t) THEN FALSE
    ELSE IF actions_permit(perms[k], intent_type) THEN TRUE
    ELSE scan_grants_stops_at_expired(perms, k + 1, intent_type, t)

\* The `for perm in perms` loop of check_intent from position k on: TRUE when
\* it reaches `return Ok(())`, FALSE when it runs off the end of the vector.
RECURSIVE scan_grants(_, _, _, _)
scan_grants(perms, k, intent_type, t) ==
    IF k > Len(perms) THEN FALSE
    ELSE IF expired_in_check(perms[k], t) THEN scan_grants(perms, k + 1, intent_type, t)
    ELSE IF actions_permit(perms[k], intent_type) THEN TRUE
    ELSE scan_grants(perms, k + 1, intent_type, t)


\* Fault: the violation names the module, not the intent type.
no_valid_permission_names_module(intent) ==
    PolicyViolation("No valid permission found for module '"
                        \o intent.target_module[1] \o "'")

\* The violation check_intent returns when no grant gives access.
no_valid_permission(intent) ==
    PolicyViolation("No valid permission found for intent type '"
                        \o intent.intent_type \o "'")



\* Fault: a module without an entry in the table falls through to Ok.
check_module_no_entry_passes(table, allowed, module, intent, t) ==
    IF allowed # << >> /\ ~vec_contains(allowed, module)
    THEN PolicyViolation("Module '" \o module \o "' is not in allowed modules list")
    ELSE IF module \notin DOMAIN table THEN Ok
    ELSE IF scan_grants(table[module], 1, intent.intent_type, t) THEN Ok
    ELSE no_valid_permission(intent)


\* Fault: the grants of every module are scanned, not only the target's.
check_module_any_module(table, allowed, module, intent, t) ==
    IF allowed # << >> /\ ~vec_contains(allowed, module)
    THEN PolicyViolation("Module '" \o module \o "' is not in allowed modules list")
    ELSE IF \E m \in DOMAIN table : scan_grants(table[m], 1, intent.intent_type, t)
    THEN Ok
    ELSE no_valid_permission(intent)

\* Fault: the grants are scanned before the allow-list is consulted, so a
\* matching grant lets a module outside the allow-list through.
check_module_grants_first(table, allowed, module, intent, t) ==
    IF /\ module \in DOMAIN table
       /\ scan_grants(table[module], 1, intent.intent_type, t)
    THEN Ok
    ELSE IF allowed # << >> /\ ~vec_contains(allowed, module)
    THEN PolicyViolation("Module '" \o module \o "' is not in allowed modules list")
    ELSE no_valid_permission(intent)

\* The body of `if let Some(module) = &intent.target_module` in check_intent:
\* the allow-list test, the scan of the module's grants, the final violation.
check_module(table, allowed, module, intent, t) ==
    IF allowed # << >> /\ ~vec_contains(allowed, module)
    THEN PolicyViolation("Module '" \o module \o "' is not in allowed modules list")
    ELSE IF /\ module \in DOMAIN table
            /\ scan_grants(table[module], 1, intent.intent_type, t)
    THEN Ok
    ELSE no_valid_permission(intent)


\* Fault: the requires_permission test is made only once a target module is
\* known, so an intent that needs no permission and names no module is refused.
check_intent_at_flag_inside(table, allowed, intent, t) ==
    IF intent.target_module # None
    THEN IF ~intent.requires_permission THEN Ok
         ELSE check_module(table, allowed, intent.target_module[1], intent, t)
    ELSE PolicyViolation("Intent requires permission but has no target module")


\* Fault: an intent without a target module is checked against the module
\* that bears the name of its intent type.
check_intent_at_type_as_module(table, allowed, intent, t) ==
    IF ~intent.requires_permission THEN Ok
    ELSE IF intent.target_module # None
    THEN check_module(table, allowed, intent.target_module[1], intent, t)
    ELSE check_module(table, allowed, intent.intent_type, intent, t)

\* PolicyEngine::check_intent, t being the value Utc::now() returns.
check_intent_at(table, allowed, intent, t) ==
    IF ~intent.requires_permission THEN Ok
    ELSE IF intent.target_module # None
    THEN check_module(table, allowed, intent.target_module[1], intent, t)
    ELSE PolicyViolation("Intent requires permission but has no target module")

check_intent(intent) == check_intent_at(permissions, allowed_modules, intent, now)

\* PolicyEngine::is_action_permitted, t being the value Utc::now() returns.
is_action_permitted_at(table, module, action, t) ==
    IF module \in DOMAIN table
    THEN \E k \in 1 .. Len(table[module]) :
            /\ ~expired_in_check(table[module][k], t)
            /\ actions_permit(table[module][k], action)
    ELSE FALSE

is_action_permitted(module, action) ==
    is_action_permitted_at(permissions, module, action, now)

\* PolicyEngine::get_permissions, t being the value Utc::now() returns.
get_permissions_at(table, module, t) ==
    IF module \in DOMAIN table
    THEN SelectSeq(table[module], LAMBDA p : retained(p, t))
    ELSE << >>


\* Fault: a permission already stored under the module is not stored again.
granted_deduplicated(table, permission) ==
    IF /\ permission.module \in DOMAIN table
       /\ vec_contains(table[permission.module], permission)
    THEN table
    ELSE [ m \in DOMAIN table \cup { permission.module } |->
             IF m = permission.module
             THEN IF m \in DOMAIN table THEN Append(table[m], permission)
                                        ELSE << permission >>
             ELSE table[m] ]

\* The table grant_permission leaves: `entry(module).or_insert_with(Vec::new).push(permission)`
granted(table, permission) ==
    [ m \in DOMAIN table \cup { permission.module } |->
        IF m = permission.module
        THEN IF m \in DOMAIN table THEN Append(table[m], permission)
                                   ELSE << permission >>
        ELSE table[m] ]


\* Fault: revoke_module removes only the grants that carry an expiry.
revoked_keeps_unexpiring(table, module) ==
    [ m \in DOMAIN table |->
        IF m = module
        THEN SelectSeq(table[m], LAMBDA p : p.expires_at = None)
        ELSE table[m] ]

\* The table revoke_module leaves: `self.permissions.remove(module)`
revoked(table, module) ==
    [ m \in DOMAIN table \ { module } |-> table[m] ]

\* clear_expired, first loop: every vector after `perms.retain(...)`
pruned(table, t) ==
    [ m \in DOMAIN table |-> SelectSeq(table[m], LAMBDA p : retained(p, t)) ]


\* Fault: the second retain is missing, emptied vectors stay in the map.
drop_empty_missing(table) == table

\* clear_expired, `self.permissions.retain(|_, perms| !perms.is_empty())`
drop_empty(table) ==
    [ m \in { x \in DOMAIN table : table[x] # << >> } |-> table[m] ]

\* The table clear_expired leaves.
cleared_table(table, t) == drop_empty(pruned(table, t))


\* Fault: `cleared += perms.len()`, the subtraction from original_len forgotten.
cleared_count_remaining(table, t) ==
    stored(pruned(table, t), DOMAIN table)

\* The count clear_expired returns: the sum of `original_len - perms.len()`
cleared_count(table, t) ==
    stored(table, DOMAIN table) - stored(pruned(table, t), DOMAIN table)

\* ---------------------------------------------------------------- actions
Call(op, arg, result) == [ op |-> op, arg |-> arg, at |-> now, result |-> result ]

\* PolicyEngine::new(allowed_modules)
Init ==
    /\ permissions = EmptyMap
    /\ allowed_modules \in AllowLists
    /\ now = 0
    /\ last = [ op |-> "new", arg |-> None, at |-> 0, result |-> None ]

\* Time passes between two operations.
Tick ==
    /\ now < MaxTime
    /\ now' = now + 1
    /\ UNCHANGED << permissions, allowed_modules, last >>

GrantPermission ==
    \E permission \in Permission :
        /\ stored(permissions, DOMAIN permissions) < MaxGrants
        /\ permissions' = granted(permissions, permission)
        /\ last' = Call("grant_permission", permission, None)
        /\ UNCHANGED << allowed_modules, now >>

CheckIntent ==
    \E intent \in Intent :
        /\ last' = Call("check_intent", intent, check_intent(intent))
        /\ UNCHANGED << permissions, allowed_modules, now >>

RevokeModule ==
    \E module \in Modules :
        /\ permissions' = revoked(permissions, module)
        /\ last' = Call("revoke_module", module, None)
        /\ UNCHANGED << allowed_modules, now >>

ClearExpired ==
    /\ permissions' = cleared_table(permissions, now)
    /\ last' = Call("clear_expired", None, cleared_count(permissions, now))
    /\ UNCHANGED << allowed_modules, now >>


\* Fault: get_permissions filters the stored vector in place (retain) instead
\* of a copy.
GetPermissionsInPlace ==
    \E module \in Modules :
        /\ last' = Call("get_permissions", module,
                        get_permissions_at(permissions, module, now))
        /\ permissions' = [ m \in DOMAIN permissions |->
                              IF m = module
                              THEN SelectSeq(permissions[m], LAMBDA p : retained(p, now))
                              ELSE permissions[m] ]
        /\ UNCHANGED << allowed_modules, now >>

GetPermissions ==
    \E module \in Modules :
        /\ last' = Call("get_permissions", module,
                        get_permissions_at(permissions, module, now))
        /\ UNCHANGED << permissions, allowed_modules, now >>

IsActionPermitted ==
    \E module \in Modules, action \in IntentTypes :
        /\ last' = Call("is_action_permitted", << module, action >>,
                        is_action_permitted(module, action))
        /\ UNCHANGED << permissions, allowed_modules, now >>

Next ==
    \/ Tick
    \/ GrantPermission
    \/ CheckIntent
    \/ RevokeModule
    \/ ClearExpired
    \/ GetPermissions
    \/ IsActionPermitted

Spec == Init /\ [][Next]_vars

\* ================================================================ IntentGenerator, Planner
\* f32, the type of Intent.confidence: a number counted in hundredths, or NaN.
\* Every comparison with NaN is false, as for IEEE floats.
F(v) == [ nan |-> FALSE, v |-> v ]
NaN == [ nan |-> TRUE, v |-> 0 ]
f32_lt(a, b) == ~a.nan /\ ~b.nan /\ a.v < b.v
f32_gt(a, b) == ~a.nan /\ ~b.nan /\ a.v > b.v

\* Decimal digits of a natural number.
RECURSIVE nat_str(_)
nat_str(n) ==
    IF n < 10 THEN SubSeq("0123456789", n + 1, n + 1)
    ELSE nat_str(n \div 10) \o SubSeq("0123456789", (n % 10) + 1, (n % 10) + 1)

\* `{}` applied to an f32: the shortest decimal that reads back, "NaN" for NaN.
fmt_f32(x) ==
    IF x.nan THEN "NaN"
    ELSE LET a == IF x.v < 0 THEN 0 - x.v ELSE x.v
             sign == IF x.v < 0 THEN "-" ELSE ""
             whole == nat_str(a \div 100)
             frac == a % 100
         IN  IF frac = 0 THEN sign \o whole
             ELSE IF frac % 10 = 0 THEN sign \o whole \o "." \o nat_str(frac \div 10)
             ELSE sign \o whole \o "." \o nat_str(frac \div 10) \o nat_str(frac % 10)

\* str::to_lowercase on ASCII text.
RECURSIVE to_lowercase(_)
to_lowercase(s) ==
    IF s = "" THEN ""
    ELSE LET c == SubSeq(s, 1, 1)
             up == { j \in 1 .. 26 : SubSeq("ABCDEFGHIJKLMNOPQRSTUVWXYZ", j, j) = c }
             lc == IF up = {} THEN c
                   ELSE LET j == CHOOSE x \in up : TRUE
                        IN  SubSeq("abcdefghijklmnopqrstuvwxyz", j, j)
         IN  lc \o to_lowercase(SubSeq(s, 2, Len(s)))

\* `s.split('.').next()`: the text before the first '.', the whole text when
\* there is none; split always yields a first piece.
split_first(s) ==
    LET dots == { i \in 1 .. Len(s) : SubSeq(s, i, i) = "." }
    IN  IF dots = {} THEN Some(s)
        ELSE LET first == CHOOSE i \in dots : \A j \in dots : i <= j
             IN  Some(SubSeq(s, 1, first - 1))

\* HashMap<String, Value>, the parameters of an Intent.
NoParams == [ k \in {} |-> "" ]
OneParam(key, value) == [ k \in { key } |-> value ]

\* Result<Intent> and the InvalidIntent error.
OkIntent(intent) == [ kind |-> "Ok", msg |-> "", value |-> intent ]
InvalidIntent(msg) == [ kind |-> "InvalidIntent", msg |-> msg ]

\* IntentGenerator::new(): min_confidence 0.5
min_confidence == F(50)

\* Intent::new, without the random id
Intent_new(intent_type, confidence, parameters, reasoning) ==
    [ intent_type |-> intent_type, confidence |-> confidence,
      parameters |-> parameters, reasoning |-> reasoning,
      requires_permission |-> FALSE, target_module |-> None,
      created_at |-> now ]

requires_permission_prefixes ==
    << "device.", "message.", "email.", "calendar.", "file.", "network.",
       "location.", "camera.", "microphone.", "notification." >>


\* Fault: the prefixes are compared without their final '.'.
requires_permission_dotless(intent_type) ==
    \E i \in 1 .. Len(requires_permission_prefixes) :
        starts_with(intent_type,
                    SubSeq(requires_permission_prefixes[i], 1,
                           Len(requires_permission_prefixes[i]) - 1))

\* IntentGenerator::requires_permission
requires_permission(intent_type) ==
    \E i \in 1 .. Len(requires_permission_prefixes) :
        starts_with(intent_type, requires_permission_prefixes[i])

\* The target_module generate stores: `if let Some(module) = split('.').next()`
target_module_of(intent_type) ==
    LET first == split_first(intent_type)
    IN  IF first # None THEN Some(first[1]) ELSE None


\* Fault: the floor itself is rejected (`<=` for `<`).
generate_floor_rejected(intent_type, confidence, parameters, reasoning) ==
    IF f32_lt(confidence, min_confidence) \/ confidence = min_confidence
    THEN InvalidIntent("Confidence " \o fmt_f32(confidence) \o " below minimum "
                          \o fmt_f32(min_confidence))
    ELSE LET intent == Intent_new(intent_type, confidence, parameters, reasoning)
         IN  OkIntent([ intent EXCEPT
                          !.requires_permission = requires_permission(intent_type),
                          !.target_module = target_module_of(intent_type) ])

\* IntentGenerator::generate
generate(intent_type, confidence, parameters, reasoning) ==
    IF f32_lt(confidence, min_confidence)
    THEN InvalidIntent("Confidence " \o fmt_f32(confidence) \o " below minimum "
                          \o fmt_f32(min_confidence))
    ELSE LET intent == Intent_new(intent_type, confidence, parameters, reasoning)
         IN  OkIntent([ intent EXCEPT
                          !.requires_permission = requires_permission(intent_type),
                          !.target_module = target_module_of(intent_type) ])

\* IntentGenerator::validate
validate(intent) ==
    IF f32_lt(intent.confidence, F(0)) \/ f32_gt(intent.confidence, F(100))
    THEN InvalidIntent("Confidence must be between 0.0 and 1.0")
    ELSE IF intent.intent_type = ""
    THEN InvalidIntent("Intent type cannot be empty")
    ELSE IF intent.reasoning = ""
    THEN InvalidIntent("Reasoning cannot be empty")
    ELSE Ok

\* `if let Ok(intent) = self.generate(...) { intents.push(intent) }`
pushed(result) == IF result.kind = "Ok" THEN << result.value >> ELSE << >>

\* The four patterns of parse_from_text, each on the lower-cased text.
reminder_intents(text, text_lower) ==
    IF str_contains(text_lower, "remind me to") \/ str_contains(text_lower, "reminder")
    THEN pushed(generate("reminder.create", F(80), OneParam("text", text),
                         "User requested a reminder"))
    ELSE << >>

device_intents(text_lower) ==
    IF str_contains(text_lower, "turn on") \/ str_contains(text_lower, "turn off")
    THEN LET action == IF str_contains(text_lower, "turn on") THEN "on" ELSE "off"
         IN  pushed(generate("device.control", F(70), OneParam("action", action),
                             "User wants to turn " \o action \o " a device"))
    ELSE << >>

weather_intents(text_lower) ==
    IF str_contains(text_lower, "weather")
    THEN pushed(generate("weather.query", F(90), NoParams, "User asking about weather"))
    ELSE << >>

time_intents(text_lower) ==
    IF str_contains(text_lower, "what time") \/ str_contains(text_lower, "current time")
    THEN pushed(generate("time.query", F(95), NoParams, "User asking about current time"))
    ELSE << >>


\* Fault: the patterns are tried as an else-if chain, the first match wins.
parse_from_text_first_match(text) ==
    LET text_lower == to_lowercase(text)
    IN  IF reminder_intents(text, text_lower) # << >>
        THEN reminder_intents(text, text_lower)
        ELSE IF device_intents(text_lower) # << >> THEN device_intents(text_lower)
        ELSE IF weather_intents(text_lower) # << >> THEN weather_intents(text_lower)
        ELSE time_intents(text_lower)

\* IntentGenerator::parse_from_text
parse_from_text(text) ==
    LET text_lower == to_lowercase(text)
    IN  reminder_intents(text, text_lower) \o device_intents(text_lower)
            \o weather_intents(text_lower) \o time_intents(text_lower)


\* Fault: the confidence rule is evaluated before the sleeping rule.
evaluate_intent_confidence_first(intent, context) ==
    IF f32_lt(intent.confidence, F(50))
    THEN << FALSE, "Low confidence: " \o fmt_f32(intent.confidence) >>
    ELSE IF /\ context.current_activity # None
            /\ context.current_activity[1] = "sleeping"
            /\ starts_with(intent.intent_type, "device.")
    THEN << FALSE, "User appears to be sleeping, device control may not be appropriate" >>
    ELSE << TRUE, "Intent appears appropriate for current context" >>

\* Fault: a confidence of exactly 0.5 is treated as low.
evaluate_intent_floor_low(intent, context) ==
    IF /\ context.current_activity # None
       /\ context.current_activity[1] = "sleeping"
       /\ starts_with(intent.intent_type, "device.")
    THEN << FALSE, "User appears to be sleeping, device control may not be appropriate" >>
    ELSE IF f32_lt(intent.confidence, F(51))
    THEN << FALSE, "Low confidence: " \o fmt_f32(intent.confidence) >>
    ELSE << TRUE, "Intent appears appropriate for current context" >>

\* Planner::evaluate_intent
evaluate_intent(intent, context) ==
    IF /\ context.current_activity # None
       /\ context.current_activity[1] = "sleeping"
       /\ starts_with(intent.intent_type, "device.")
    THEN << FALSE, "User appears to be sleeping, device control may not be appropriate" >>
    ELSE IF f32_lt(intent.confidence, F(50))
    THEN << FALSE, "Low confidence: " \o fmt_f32(intent.confidence) >>
    ELSE << TRUE, "Intent appears appropriate for current context" >>

\* ---------------------------------------------------------------- inputs
\* Confidences callers pass: below, at and above the floor, the ends of
\* [0, 1], outside it, and NaN.
Confidences == { F(0 - 10), F(0), F(49), F(50), F(51), F(100), F(150), NaN }

\* Intent types passed to generate: one per sensitive prefix, the three
\* harmless namespaces of the documentation, a type without '.', a type that
\* only resembles a sensitive one, and the empty string.
GenerateTypes ==
    { "device.control", "message.send", "email.send", "calendar.add", "file.read",
      "network.get", "location.get", "camera.snap", "microphone.rec",
      "notification.show", "weather.query", "time.query", "reminder.create",
      "device", "devices.list", "" }

Reasonings == { "", "User wants it" }

\* Intents that reach validate and evaluate_intent from anywhere, built with
\* Intent::new, with_permission and with_target_module or read from a peer.
ForeignTypes == { "device.control", "device", "weather.query", "" }
ForeignIntent ==
    [ intent_type : ForeignTypes, confidence : Confidences,
      parameters : { NoParams }, reasoning : Reasonings,
      requires_permission : BOOLEAN, target_module : { None, Some("device") },
      created_at : { 0 } ]

\* struct Context, the field evaluate_intent reads.
Context == [ current_activity : { None, Some("sleeping"), Some("working") } ]

\* Texts given to parse_from_text.
Texts ==
    { "", "hello there",
      "Remind me to call mom", "set a REMINDER",
      "turn on the lights", "Turn OFF the fan", "turn on then turn off",
      "what's the weather like today?", "turn on the lamp if the weather is bad",
      "what time is it", "current time please",
      "reminder: what time is the weather report, turn off the tv" }

\* ---------------------------------------------------------------- actions
\* A generator and a planner next to a freshly constructed engine.
InitIntent ==
    /\ permissions = EmptyMap
    /\ allowed_modules = << >>
    /\ now = 0
    /\ last = [ op |-> "new", arg |-> None, at |-> 0, result |-> None ]

Generate ==
    \E intent_type \in GenerateTypes, confidence \in Confidences,
       reasoning \in Reasonings :
        /\ last' = Call("generate", << intent_type, confidence, NoParams, reasoning >>,
                        generate(intent_type, confidence, NoParams, reasoning))
        /\ UNCHANGED << permissions, allowed_modules, now >>

Validate ==
    \E intent \in ForeignIntent :
        /\ last' = Call("validate", intent, validate(intent))
        /\ UNCHANGED << permissions, allowed_modules, now >>

ParseFromText ==
    \E text \in Texts :
        /\ last' = Call("parse_from_text", text, parse_from_text(text))
        /\ UNCHANGED << permissions, allowed_modules, now >>

EvaluateIntent ==
    \E intent \in ForeignIntent, context \in Context :
        /\ last' = Call("evaluate_intent", << intent, context >>,
                        evaluate_intent(intent, context))
        /\ UNCHANGED << permissions, allowed_modules, now >>

NextIntent ==
    \/ Generate
    \/ Validate
    \/ ParseFromText
    \/ EvaluateIntent

SpecIntent == InitIntent /\ [][NextIntent]_vars

\* ================================================================ properties
\* What the properties say about grants, stated on the table itself.

\* The grants stored under module m, as a set.
GrantsOf(m) ==
    IF m \in DOMAIN permissions
    THEN { permissions[m][k] : k \in 1 .. Len(permissions[m]) }
    ELSE {}

\* Action name a covers intent type ty: it is ty, or ty continues a with a '.'.
Covers(a, ty) ==
    \/ a = ty
    \/ /\ Len(ty) > Len(a)
       /\ SubSeq(ty, 1, Len(a) + 1) = a \o "."

\* Grant g names an action that covers ty.
GrantCovers(g, ty) == \E k \in 1 .. Len(g.actions) : Covers(g.actions[k], ty)

\* Module m passes the allow-list.
PassesAllowList(m) ==
    \/ allowed_modules = << >>
    \/ \E k \in 1 .. Len(allowed_modules) : allowed_modules[k] = m

InFuture(g, t) == g.expires_at = None \/ g.expires_at[1] > t
InPast(g, t) == g.expires_at # None /\ g.expires_at[1] < t

Denied(r) == r.kind = "PolicyViolation"

\* The last call was check_intent; every reachable engine state and every
\* intent of Intent occur together in such a state, the call reading last.at.
Checked == last.op = "check_intent"
Gated == Checked /\ last.arg.requires_permission /\ last.arg.target_module # None
GatedModule == last.arg.target_module[1]

\* The last call was is_action_permitted(AskedModule, AskedAction).
Asked == last.op = "is_action_permitted"
AskedModule == last.arg[1]
AskedAction == last.arg[2]

\* ---------------------------------------------------------------- C1
\* C1: an intent with requires_permission = false passes check_intent in every
\* reachable engine state, whatever the allow-list, the grant table and the
\* intent's target_module.
C1_NoPermissionNeededPasses ==
    (Checked /\ ~last.arg.requires_permission) => last.result = Ok

\* check_intent has let through an intent that needs no permission and names
\* no module, while the allow-list is non-empty and the table holds a grant.
C1_Witness ==
    /\ Checked
    /\ ~last.arg.requires_permission
    /\ last.arg.target_module = None
    /\ allowed_modules # << >>
    /\ permissions # EmptyMap
    /\ last.result = Ok

\* ---------------------------------------------------------------- C2
\* C2: with a non-empty allow-list, check_intent refuses every intent that
\* requires permission and targets a module outside the allow-list, in every
\* reachable state, whatever grants the table holds for that module.
C2_AllowListBlocksDespiteGrants ==
    (Gated /\ ~PassesAllowList(GatedModule)) => Denied(last.result)

\* check_intent has refused an intent for a module outside the allow-list while
\* the table holds, under that module, a grant without expiry that covers it.
C2_Witness ==
    /\ Gated
    /\ ~PassesAllowList(GatedModule)
    /\ \E g \in GrantsOf(GatedModule) :
          g.expires_at = None /\ GrantCovers(g, last.arg.intent_type)
    /\ Denied(last.result)

\* ---------------------------------------------------------------- C3
\* C3: a grant stored under the intent's module, not expired, with an action
\* equal to the intent type or a dotted ancestor of it at any depth, makes
\* check_intent succeed when the module passes the allow-list; "device" covers
\* "device.control" and "device.control.dim", "device.control" covers itself
\* and "device.control.dim".
C3_AncestorGrantAuthorizes ==
    /\ ( /\ Gated
         /\ PassesAllowList(GatedModule)
         /\ \E g \in GrantsOf(GatedModule) :
               InFuture(g, last.at) /\ GrantCovers(g, last.arg.intent_type) )
       => last.result = Ok
    /\ action_matches("device", "device.control")
    /\ action_matches("device", "device.control.dim")
    /\ action_matches("device.control", "device.control")
    /\ action_matches("device.control", "device.control.dim")

\* check_intent has authorized "device.control.dim" on the strength of a single
\* grant whose actions are "dev" and "device.control".
C3_Witness ==
    /\ Gated
    /\ last.arg.intent_type = "device.control.dim"
    /\ GatedModule \in DOMAIN permissions
    /\ Len(permissions[GatedModule]) = 1
    /\ permissions[GatedModule][1].actions = << "dev", "device.control" >>
    /\ last.result = Ok

\* ---------------------------------------------------------------- C4
\* C4: when no grant of the module names an action that is the intent type or
\* a dotted ancestor of it, check_intent refuses and is_action_permitted is
\* false: "device.control" does not cover "device", "dev" does not cover
\* "device.control", "device" covers neither "devicex" nor "devicecontrol".
C4_NoCoverNoAuthorization ==
    /\ ( /\ Gated
         /\ \A g \in GrantsOf(GatedModule) : ~GrantCovers(g, last.arg.intent_type) )
       => Denied(last.result)
    /\ ( /\ Asked
         /\ \A g \in GrantsOf(AskedModule) : ~GrantCovers(g, AskedAction) )
       => last.result = FALSE
    /\ ~action_matches("device.control", "device")
    /\ ~action_matches("dev", "device.control")
    /\ ~action_matches("device", "devicex")
    /\ ~action_matches("device", "devicecontrol")

\* check_intent has refused "device" although its module passes the allow-list
\* and holds a grant without expiry for "dev" and "device.control".
C4_Witness ==
    /\ Gated
    /\ last.arg.intent_type = "device"
    /\ PassesAllowList(GatedModule)
    /\ \E g \in GrantsOf(GatedModule) :
          g.expires_at = None /\ g.actions = << "dev", "device.control" >>
    /\ Denied(last.result)

\* ---------------------------------------------------------------- C5
\* C5: check_intent refuses a permission-requiring intent when every grant of
\* its module that covers it has an expires_at earlier than the evaluation
\* time, the grants being still stored in the table.
C5_PastExpiryNeverAuthorizes ==
    ( /\ Gated
      /\ \A g \in GrantsOf(GatedModule) :
            GrantCovers(g, last.arg.intent_type) => InPast(g, last.at) )
    => Denied(last.result)

\* check_intent has refused an intent whose module passes the allow-list and
\* still stores a covering grant, expired before the call.
C5_Witness ==
    /\ Gated
    /\ PassesAllowList(GatedModule)
    /\ \E g \in GrantsOf(GatedModule) :
          GrantCovers(g, last.arg.intent_type) /\ InPast(g, last.at)
    /\ Denied(last.result)

\* ---------------------------------------------------------------- C6
\* C6: revoke_module(M) removes every grant stored under M, with or without
\* an expiry, expired or not.  From then on, until grant_permission is called
\* for M, check_intent refuses every permission-requiring intent that targets
\* M and is_action_permitted(M, a) is false for every a, also for an intent
\* that check_intent authorized just before the revoke.
C6_RevokedStaysRefused ==
    /\ [](last.op = "revoke_module" => last.arg \notin DOMAIN permissions)
    /\ [][ \A m \in Modules :
              (m \notin DOMAIN permissions /\ m \in DOMAIN permissions')
              => (last'.op = "grant_permission" /\ last'.arg.module = m) ]_vars
    /\ []((Gated /\ GatedModule \notin DOMAIN permissions) => Denied(last.result))
    /\ []((Asked /\ AskedModule \notin DOMAIN permissions) => last.result = FALSE)
    /\ [][ ( /\ Gated
             /\ last.result = Ok
             /\ last'.op = "revoke_module"
             /\ last'.arg = GatedModule )
           => \A t \in Times :
                 Denied(check_intent_at(permissions', allowed_modules', last.arg, t)) ]_vars

\* revoke_module("device") has just run on an engine whose allow-list admits
\* "device": the module has left the table, the grants of "message" are kept.
C6_Witness ==
    /\ last.op = "revoke_module"
    /\ last.arg = "device"
    /\ PassesAllowList("device")
    /\ "device" \notin DOMAIN permissions
    /\ "message" \in DOMAIN permissions

\* ---------------------------------------------------------------- C7
\* C7: when the intent requires permission, its module passes the allow-list
\* and no grant of the module that check_intent counts as unexpired covers the
\* intent type (no entry for the module, or grants for other actions only),
\* check_intent returns a PolicyViolation whose message contains the intent
\* type; it returns no other kind of error.
C7_NoGrantViolationNamesIntentType ==
    /\ ( /\ Gated
         /\ PassesAllowList(GatedModule)
         /\ \A g \in GrantsOf(GatedModule) :
               GrantCovers(g, last.arg.intent_type) => InPast(g, last.at) )
       => ( /\ Denied(last.result)
            /\ str_contains(last.result.msg, last.arg.intent_type) )
    /\ Checked => last.result.kind \in { "Ok", "PolicyViolation" }

\* check_intent has refused "device.control", naming it, for a module that
\* passes the allow-list and has no entry in a non-empty table.
C7_Witness ==
    /\ Gated
    /\ last.arg.intent_type = "device.control"
    /\ PassesAllowList(GatedModule)
    /\ GatedModule \notin DOMAIN permissions
    /\ permissions # EmptyMap
    /\ Denied(last.result)
    /\ str_contains(last.result.msg, "device.control")

\* ---------------------------------------------------------------- C8
\* C8: check_intent refuses every intent that requires permission and has no
\* target_module, whatever the allow-list and the grants.
C8_NoTargetModuleRefused ==
    ( /\ Checked
      /\ last.arg.requires_permission
      /\ last.arg.target_module = None )
    => Denied(last.result)

\* check_intent has refused an intent without target module while the
\* allow-list is empty and a grant without expiry, stored under the module
\* named like the intent type, lists exactly that intent type.
C8_Witness ==
    /\ Checked
    /\ last.arg.requires_permission
    /\ last.arg.target_module = None
    /\ allowed_modules = << >>
    /\ \E g \in GrantsOf(last.arg.intent_type) :
          /\ g.expires_at = None
          /\ \E k \in 1 .. Len(g.actions) : g.actions[k] = last.arg.intent_type
    /\ Denied(last.result)

\* ---------------------------------------------------------------- C9
\* The grants of module m that a prune at instant t keeps when it removes
\* exactly those whose expires_at is strictly before t.
KeptIfStrict(table, m, t) == SelectSeq(table[m], LAMBDA g : ~InPast(g, t))

\* The number of stored grants whose expires_at is strictly before t.
StrictlyPast(table, t) ==
    stored(table, DOMAIN table)
        - stored([ m \in DOMAIN table |-> KeptIfStrict(table, m, t) ], DOMAIN table)

\* C9: clear_expired returns the number of stored grants whose expires_at is
\* strictly before the evaluation time and removes exactly those grants; the
\* grants without expires_at and those whose expires_at is not strictly before
\* now are kept, in their order.
C9_ClearsExactlyStrictlyPast ==
    [][ (last'.op = "clear_expired" /\ now' = now)
        => /\ last'.result = StrictlyPast(permissions, now)
           /\ \A m \in DOMAIN permissions :
                 KeptIfStrict(permissions, m, now)
                    = IF m \in DOMAIN permissions' THEN permissions'[m] ELSE << >> ]_vars

\* ---------------------------------------------------------------- C10
\* No stored grant has an expires_at after instant t1 and not after t2.
NoExpiryBetween(t1, t2) ==
    \A m \in DOMAIN permissions :
        \A g \in GrantsOf(m) :
            g.expires_at = None \/ g.expires_at[1] <= t1 \/ g.expires_at[1] > t2

\* C10: clear_expired called again after clear_expired, with no other call in
\* between and no grant reaching its expires_at between the two calls, returns
\* 0 and leaves the table as the first call left it.
C10_ClearExpiredIdempotent ==
    [][ ( /\ last.op = "clear_expired"
          /\ last'.op = "clear_expired"
          /\ now' = now
          /\ NoExpiryBetween(last.at, now) )
        => (last'.result = 0 /\ permissions' = permissions) ]_vars

\* A first clear_expired has removed grants and kept others, time has passed
\* since, no kept grant has reached its expiry: the next call is the second.
C10_Witness ==
    /\ last.op = "clear_expired"
    /\ last.result > 0
    /\ permissions # EmptyMap
    /\ now > last.at
    /\ NoExpiryBetween(last.at, now)

\* ---------------------------------------------------------------- C11
\* The intent that asks for action a of module m with permission required.
AsIntent(m, a) ==
    [ intent_type |-> a, requires_permission |-> TRUE, target_module |-> Some(m) ]

\* C11: in every reachable engine state and at the same evaluation time, for a
\* module that passes the allow-list, is_action_permitted(M, a) is true exactly
\* when check_intent succeeds on the permission-requiring intent of type a
\* that targets M.
C11_QueryAgreesWithCheck ==
    /\ (Gated /\ PassesAllowList(GatedModule))
       => ( last.result = Ok
            <=> is_action_permitted_at(permissions, GatedModule,
                                       last.arg.intent_type, last.at) )
    /\ (Asked /\ PassesAllowList(AskedModule))
       => ( last.result
            <=> check_intent_at(permissions, allowed_modules,
                                AsIntent(AskedModule, AskedAction), last.at) = Ok )

\* is_action_permitted has answered true for a module that passes the
\* allow-list and whose first stored grant had expired before the call.
C11_Witness ==
    /\ Asked
    /\ PassesAllowList(AskedModule)
    /\ AskedModule \in DOMAIN permissions
    /\ InPast(permissions[AskedModule][1], last.at)
    /\ last.result = TRUE

\* ================================================================ generator and planner properties
\* The last call was generate(GenType, GenConfidence, _, GenReasoning).
Generated == last.op = "generate"
GenType == last.arg[1]
GenConfidence == last.arg[2]
GenReasoning == last.arg[4]
GenOk == Generated /\ last.result.kind = "Ok"

\* Text ty begins with text p.
Begins(ty, p) == Len(ty) >= Len(p) /\ SubSeq(ty, 1, Len(p)) = p

\* The ten sensitive namespaces.
SensitiveModules ==
    { "device", "message", "email", "calendar", "file", "network", "location",
      "camera", "microphone", "notification" }

\* Positions of '.' in ty.
Dots(ty) == { i \in 1 .. Len(ty) : SubSeq(ty, i, i) = "." }

\* ---------------------------------------------------------------- C12
\* C12: with the default floor 0.5, generate fails with InvalidIntent and
\* yields no Intent for every confidence below 0.5, and returns an Intent
\* carrying its arguments for every confidence from 0.5 to 1.0, 0.5 included.
C12_ConfidenceFloor ==
    Generated =>
        /\ (~GenConfidence.nan /\ GenConfidence.v < 50)
           => ( /\ last.result.kind = "InvalidIntent"
                /\ "value" \notin DOMAIN last.result )
        /\ (~GenConfidence.nan /\ GenConfidence.v >= 50 /\ GenConfidence.v <= 100)
           => ( /\ last.result.kind = "Ok"
                /\ last.result.value.intent_type = GenType
                /\ last.result.value.confidence = GenConfidence
                /\ last.result.value.reasoning = GenReasoning )

\* generate has returned an Intent for a confidence of exactly 0.5.
C12_Witness ==
    /\ Generated
    /\ GenConfidence = F(50)
    /\ last.result.kind = "Ok"
    /\ last.result.value.confidence = F(50)

\* ---------------------------------------------------------------- C13
\* C13: an Intent returned by generate has requires_permission true exactly
\* when its intent_type begins with one of the ten sensitive namespaces
\* followed by '.', so the flag depends on intent_type alone.
C13_SensitivePrefixFlag ==
    /\ GenOk =>
          ( last.result.value.requires_permission
            <=> \E m \in SensitiveModules : Begins(GenType, m \o ".") )
    /\ ~requires_permission("weather.query")
    /\ ~requires_permission("time.query")
    /\ ~requires_permission("reminder.create")

\* generate has returned "devices.list", which only resembles a sensitive
\* type, without the flag.
C13_Witness ==
    /\ GenOk
    /\ GenType = "devices.list"
    /\ ~last.result.value.requires_permission

\* ---------------------------------------------------------------- C14
\* C14: an Intent returned by generate has target_module set to the text of
\* intent_type before its first '.', and unset when intent_type has no '.'.
C14_TargetModuleBeforeFirstDot ==
    GenOk =>
        last.result.value.target_module
            = IF Dots(GenType) = {} THEN None
              ELSE LET first == CHOOSE i \in Dots(GenType) :
                                    \A j \in Dots(GenType) : i <= j
                   IN  Some(SubSeq(GenType, 1, first - 1))

\* ---------------------------------------------------------------- C15
\* C15: every Intent generate returns has a confidence in [0, 1], a non-empty
\* intent_type and a non-empty reasoning, and validate accepts it.
C15_GeneratedIsValid ==
    GenOk =>
        /\ ~last.result.value.confidence.nan
        /\ last.result.value.confidence.v >= 0
        /\ last.result.value.confidence.v <= 100
        /\ last.result.value.intent_type # ""
        /\ last.result.value.reasoning # ""
        /\ validate(last.result.value) = Ok

\* ---------------------------------------------------------------- C16
\* The last call was evaluate_intent(GateIntent, GateContext).
Evaluated == last.op = "evaluate_intent"
GateIntent == last.arg[1]
GateContext == last.arg[2]
SleepingRule ==
    /\ GateContext.current_activity = Some("sleeping")
    /\ Begins(GateIntent.intent_type, "device.")

\* What the policy engine answers for an intent given to the planner.
PolicyOutcome(intent) ==
    check_intent_at(permissions, allowed_modules,
                    [ intent_type |-> intent.intent_type,
                      requires_permission |-> intent.requires_permission,
                      target_module |-> intent.target_module ], now)

\* C16: evaluate_intent returns (false, a reason containing "sleeping") when
\* the activity is "sleeping" and the intent type begins with "device.", also
\* when the confidence is below 0.5, and whatever the intent's
\* requires_permission and target_module are and the policy engine answers.
C16_SleepingRuleFirst ==
    (Evaluated /\ SleepingRule) =>
        /\ last.result[1] = FALSE
        /\ str_contains(last.result[2], "sleeping")
        /\ \A r \in BOOLEAN, m \in { None, Some("device") } :
              evaluate_intent([ GateIntent EXCEPT !.requires_permission = r,
                                                   !.target_module = m ],
                              GateContext) = last.result

\* evaluate_intent has deferred, for sleeping, a "device.control" intent of
\* confidence 0.49 that the policy engine lets through.
C16_Witness ==
    /\ Evaluated
    /\ SleepingRule
    /\ GateIntent.confidence = F(49)
    /\ PolicyOutcome(GateIntent) = Ok
    /\ last.result[1] = FALSE
    /\ str_contains(last.result[2], "sleeping")

\* ---------------------------------------------------------------- C17
\* C17: when the sleeping rule does not apply, evaluate_intent returns
\* (false, a reason beginning with "Low confidence: ") when the confidence is
\* below 0.5 and (true, "Intent appears appropriate for current context")
\* otherwise; a confidence that is a number is approved exactly when it is at
\* least 0.5.
C17_ConfidenceRule ==
    (Evaluated /\ ~SleepingRule) =>
        /\ IF ~GateIntent.confidence.nan /\ GateIntent.confidence.v < 50
           THEN /\ last.result[1] = FALSE
                /\ Begins(last.result[2], "Low confidence: ")
           ELSE last.result = << TRUE, "Intent appears appropriate for current context" >>
        /\ ~GateIntent.confidence.nan
           => (last.result[1] <=> GateIntent.confidence.v >= 50)

\* evaluate_intent has approved a "device.control" intent of confidence 0.5
\* for a user who is working.
C17_Witness ==
    /\ Evaluated
    /\ GateContext.current_activity = Some("working")
    /\ GateIntent.intent_type = "device.control"
    /\ GateIntent.confidence = F(50)
    /\ last.result[1] = TRUE

\* ---------------------------------------------------------------- C18
\* The triggers of the four intent types, on a lower-cased text.
Has(text, word) ==
    \E i \in 1 .. Len(text) : i + Len(word) - 1 <= Len(text)
                               /\ SubSeq(text, i, i + Len(word) - 1) = word
Triggered(ty, lower) ==
    CASE ty = "reminder.create" -> Has(lower, "remind me to") \/ Has(lower, "reminder")
      [] ty = "device.control" -> Has(lower, "turn on") \/ Has(lower, "turn off")
      [] ty = "weather.query" -> Has(lower, "weather")
      [] ty = "time.query" -> Has(lower, "what time") \/ Has(lower, "current time")

\* The intent types of a sequence of intents.
TypesOf(intents) == [ k \in 1 .. Len(intents) |-> intents[k].intent_type ]

\* C18: parse_from_text returns one Intent for each of its four triggers that
\* matches the lower-cased text and none for the others, in the order
\* reminder.create, device.control, weather.query, time.query.
C18_IndependentTriggers ==
    /\ last.op = "parse_from_text" =>
          TypesOf(last.result)
            = SelectSeq(<< "reminder.create", "device.control",
                           "weather.query", "time.query" >>,
                        LAMBDA ty : Triggered(ty, to_lowercase(last.arg)))
    /\ TypesOf(parse_from_text("check the weather, then turn on the heating"))
          = << "device.control", "weather.query" >>
    /\ parse_from_text("good morning") = << >>
    /\ TypesOf(parse_from_text("turn on the fan, turn off the lamp"))
          = << "device.control" >>

\* parse_from_text has returned a device.control and a weather.query intent
\* for one text.
C18_Witness ==
    /\ last.op = "parse_from_text"
    /\ last.arg = "turn on the lamp if the weather is bad"
    /\ TypesOf(last.result) = << "device.control", "weather.query" >>

\* ---------------------------------------------------------------- C19
\* The step is a check_intent call that repeats the call before it: the same
\* intent, and since that call only the clock has moved (every other
\* operation would have replaced `last`).
Retry ==
    /\ last.op = "check_intent"
    /\ last'.op = "check_intent"
    /\ last'.arg = last.arg
    /\ now' = now
    /\ permissions' = permissions
    /\ allowed_modules' = allowed_modules

\* Some stored grant is honoured at instant t1 and skipped at instant t2.
ExpiresBetween(t1, t2) ==
    \E m \in DOMAIN permissions :
        \E g \in GrantsOf(m) :
            /\ g.expires_at # None
            /\ t1 <= g.expires_at[1]
            /\ g.expires_at[1] < t2

\* C19 as stated: a check_intent call that repeats the previous one, on the
\* same intent, allow-list and grant table with no grant_permission,
\* revoke_module or clear_expired in between, returns the same result.
C19_RetrySameResult ==
    [][ Retry => last'.result = last.result ]_vars

\* C19, amended: such a repeated call returns the same result when no stored
\* grant is past its expires_at at the second call and was not at the first.
C19_RetrySameResultUnlessExpired ==
    [][ (Retry /\ ~ExpiresBetween(last.at, now)) => last'.result = last.result ]_vars

\* An intent was authorized by a grant that expires; the clock has moved on
\* since the call and the grant is still honoured: the retry is next.
C19_Witness ==
    /\ Gated
    /\ last.result = Ok
    /\ last.at < now
    /\ GatedModule \in DOMAIN permissions
    /\ \A g \in GrantsOf(GatedModule) : g.expires_at # None
    /\ ~ExpiresBetween(last.at, now)

\* ================================================================ PolicyEngine, one scan step by step
\* check_intent and is_action_permitted borrow the engine (`&self`) and walk
\* the module's grants one by one while the clock runs on; grant_permission,
\* revoke_module and clear_expired need the exclusive borrow (`&mut self`),
\* which no caller can have while a shared borrow is alive.  A scan under way
\* is kept in `last`: op "scanning", at = the instant `Utc::now()` returned,
\* arg = the call, its argument, the module and action scanned for, and the
\* position of the next grant.
Scan(call, arg, module, action, k) ==
    [ call |-> call, arg |-> arg, module |-> module, action |-> action, next |-> k ]

Scanning == last.op = "scanning"

\* Fault: the clock is read again for every grant examined.
scan_instant_reread(read_at, current) == current

\* The instant an expiry is compared with inside the loop: the local `now`,
\* read once before the loop.
scan_instant(read_at, current) == read_at

\* What the call returns when its loop has ended, having found a grant or not.
scan_result(scan, found) ==
    IF scan.call = "check_intent"
    THEN IF found THEN Ok ELSE no_valid_permission(scan.arg)
    ELSE found

\* check_intent up to the loop: the early returns, or the start of the scan.
BeginCheckIntent ==
    \E intent \in Intent :
        /\ ~Scanning
        /\ IF /\ intent.requires_permission
              /\ intent.target_module # None
              /\ ~(allowed_modules # << >>
                     /\ ~vec_contains(allowed_modules, intent.target_module[1]))
              /\ intent.target_module[1] \in DOMAIN permissions
           THEN last' = [ op |-> "scanning",
                          arg |-> Scan("check_intent", intent, intent.target_module[1],
                                       intent.intent_type, 1),
                          at |-> now, result |-> None ]
           ELSE last' = Call("check_intent", intent, check_intent(intent))
        /\ UNCHANGED << permissions, allowed_modules, now >>

\* is_action_permitted up to the loop.
BeginIsActionPermitted ==
    \E module \in Modules, action \in IntentTypes :
        /\ ~Scanning
        /\ IF module \in DOMAIN permissions
           THEN last' = [ op |-> "scanning",
                          arg |-> Scan("is_action_permitted", << module, action >>,
                                       module, action, 1),
                          at |-> now, result |-> None ]
           ELSE last' = Call("is_action_permitted", << module, action >>, FALSE)
        /\ UNCHANGED << permissions, allowed_modules, now >>

\* One turn of the loop: the end of the vector, an expired grant skipped, a
\* matching grant found, or a grant that does not match.
ScanStep ==
    /\ Scanning
    /\ LET scan == last.arg
           perms == permissions[scan.module]
           t == scan_instant(last.at, now)
           done(found) == [ op |-> scan.call, arg |-> scan.arg, at |-> last.at,
                            result |-> scan_result(scan, found) ]
           advance == [ last EXCEPT !.arg.next = @ + 1 ]
       IN  last' = IF scan.next > Len(perms) THEN done(FALSE)
                   ELSE IF expired_in_check(perms[scan.next], t) THEN advance
                   ELSE IF actions_permit(perms[scan.next], scan.action) THEN done(TRUE)
                   ELSE advance
    /\ UNCHANGED << permissions, allowed_modules, now >>

\* The `&mut self` operations, possible only while no scan holds the engine.
GrantExclusive == ~Scanning /\ GrantPermission
RevokeExclusive == ~Scanning /\ RevokeModule
ClearExclusive == ~Scanning /\ ClearExpired

NextScan ==
    \/ Tick
    \/ BeginCheckIntent
    \/ BeginIsActionPermitted
    \/ ScanStep
    \/ GrantExclusive
    \/ RevokeExclusive
    \/ ClearExclusive

SpecScan == Init /\ [][NextScan]_vars

\* ---------------------------------------------------------------- C20
\* C20: while a check_intent or is_action_permitted scan is under way the
\* module's grants stay as the scan found them, and the call returns what the
\* whole table gives at the single instant read at its start, however the
\* clock moves and whichever grants expire during the scan.
C20_ScanIsAtomic ==
    /\ Scanning =>
          /\ last.arg.module \in DOMAIN permissions
          /\ last.arg.next <= Len(permissions[last.arg.module]) + 1
          /\ \A j \in 1 .. last.arg.next - 1 :
                \/ expired_in_check(permissions[last.arg.module][j], last.at)
                \/ ~actions_permit(permissions[last.arg.module][j], last.arg.action)
    /\ last.op = "check_intent" =>
          last.result = check_intent_at(permissions, allowed_modules, last.arg, last.at)
    /\ last.op = "is_action_permitted" =>
          last.result = is_action_permitted_at(permissions, last.arg[1], last.arg[2],
                                               last.at)

\* A scan has passed one grant and its next grant, honoured at the instant the
\* scan read, has expired on the clock since.
C20_Witness ==
    /\ Scanning
    /\ last.arg.next = 2
    /\ Len(permissions[last.arg.module]) >= 2
    /\ ~expired_in_check(permissions[last.arg.module][2], last.at)
    /\ expired_in_check(permissions[last.arg.module][2], now)
    /\ actions_permit(permissions[last.arg.module][2], last.arg.action)

\* ---------------------------------------------------------------- C21
\* C21: check_intent and is_action_permitted honour a grant only if its
\* expires_at is absent or strictly after the evaluation time, so an
\* authorization always rests on a covering grant of the module that has no
\* expires_at or one later than now; expires_at = now does not authorize.
C21_ExpiryInstantRefused ==
    /\ (Gated /\ last.result = Ok)
       => \E g \in GrantsOf(GatedModule) :
             GrantCovers(g, last.arg.intent_type) /\ InFuture(g, last.at)
    /\ (Asked /\ last.result = TRUE)
       => \E g \in GrantsOf(AskedModule) :
             GrantCovers(g, AskedAction) /\ InFuture(g, last.at)

\* ---------------------------------------------------------------- C24
\* C24: no module key of the grant table maps to an empty grant list; after
\* clear_expired every module still in the table holds a grant the call kept.
C24_NoEmptyGrantList ==
    /\ \A m \in DOMAIN permissions : permissions[m] # << >>
    /\ last.op = "clear_expired"
       => \A m \in DOMAIN permissions :
             \E g \in GrantsOf(m) : InFuture(g, last.at)

\* clear_expired has pruned the last grants of every module and the table is
\* empty again.
C24_Witness ==
    /\ last.op = "clear_expired"
    /\ last.result > 0
    /\ permissions = EmptyMap

\* ---------------------------------------------------------------- C22
\* The step is a call of the named operation (a call that repeats the last
\* one at the same instant and changes nothing is no step at all).
StepOf(op) == last'.op = op /\ (last' # last \/ permissions' # permissions)

\* Module m holds the same grant twice and nothing else, both past expiry at t.
TwiceExpired(m, t) ==
    /\ m \in DOMAIN permissions
    /\ Len(permissions[m]) = 2
    /\ permissions[m][1] = permissions[m][2]
    /\ InPast(permissions[m][1], t)

\* C22: grant_permission(p) appends p to the list of p.module and changes
\* nothing else: the module's earlier entries, the other modules' lists and
\* the allow-list stay, an identical permission is stored again; a grant
\* stored twice is counted twice by clear_expired once expired, and
\* revoke_module removes both.
C22_GrantAppends ==
    [][ /\ StepOf("grant_permission") =>
             LET p == last'.arg
                 before == IF p.module \in DOMAIN permissions
                           THEN permissions[p.module] ELSE << >>
             IN  /\ DOMAIN permissions' = DOMAIN permissions \cup { p.module }
                 /\ permissions'[p.module] = before \o << p >>
                 /\ \A m \in DOMAIN permissions \ { p.module } :
                       permissions'[m] = permissions[m]
                 /\ allowed_modules' = allowed_modules
        /\ StepOf("clear_expired") =>
             \A m \in Modules :
                (TwiceExpired(m, now) /\ DOMAIN permissions = { m })
                   => (last'.result = 2 /\ permissions' = EmptyMap)
        /\ StepOf("revoke_module") =>
             (TwiceExpired(last'.arg, now) => last'.arg \notin DOMAIN permissions')
      ]_vars

\* grant_permission has stored a permission the module already held.
C22_Witness ==
    /\ last.op = "grant_permission"
    /\ last.arg.module \in DOMAIN permissions
    /\ permissions[last.arg.module] = << last.arg, last.arg >>

\* ================================================================ PolicyEngine, grants with scopes
\* Permission::scope as callers fill it.
ScopeLists == { << >>, << "kitchen" >> }

\* Scoped grants are given to one module; the other stays without an entry.
ScopedModules == { "device" }

ScopedPermission ==
    [ module : ScopedModules, actions : ActionLists, scope : ScopeLists,
      granted_at : GrantedAts, expires_at : Expiries ]

GrantScoped ==
    \E permission \in ScopedPermission :
        /\ stored(permissions, DOMAIN permissions) < MaxGrants
        /\ permissions' = granted(permissions, permission)
        /\ last' = Call("grant_permission", permission, None)
        /\ UNCHANGED << allowed_modules, now >>

NextScope ==
    \/ Tick
    \/ GrantScoped
    \/ CheckIntent
    \/ IsActionPermitted

SpecScope == Init /\ [][NextScope]_vars

\* ---------------------------------------------------------------- C23
\* The table with the scope of every stored grant replaced by sc.
Rescoped(table, sc) ==
    [ m \in DOMAIN table |->
        [ k \in 1 .. Len(table[m]) |-> [ table[m][k] EXCEPT !.scope = sc ] ] ]

\* C23: the scope of the stored grants never influences a decision: every
\* check_intent and is_action_permitted call returns what it returns on the
\* table with all scopes emptied, and with all scopes set, so two engine
\* states that differ only in scopes answer alike.
C23_ScopeNeverConsulted ==
    \A sc \in ScopeLists :
        /\ Checked =>
              last.result = check_intent_at(Rescoped(permissions, sc), allowed_modules,
                                            last.arg, last.at)
        /\ Asked =>
              last.result = is_action_permitted_at(Rescoped(permissions, sc),
                                                   AskedModule, AskedAction, last.at)

\* check_intent has authorized an intent on grants that all carry a scope.
C23_Witness ==
    /\ Gated
    /\ last.result = Ok
    /\ \A g \in GrantsOf(GatedModule) : g.scope = << "kitchen" >>

\* ---------------------------------------------------------------- C25
\* The grants of module m that check_intent and is_action_permitted honour
\* at instant t, in stored order.
Honoured(table, m, t) ==
    IF m \in DOMAIN table
    THEN SelectSeq(table[m], LAMBDA g : ~expired_in_check(g, t))
    ELSE << >>

\* C25: at one instant clear_expired removes only grants the checks already
\* refuse, so no check_intent or is_action_permitted result at that instant
\* differs before and after the call, and get_permissions lists exactly the
\* grants the checks honour.
C25_OneNotionOfExpired ==
    [][ /\ StepOf("clear_expired") =>
             /\ \A intent \in Intent :
                   check_intent_at(permissions', allowed_modules', intent, now)
                     = check_intent_at(permissions, allowed_modules, intent, now)
             /\ \A m \in Modules, a \in IntentTypes :
                   is_action_permitted_at(permissions', m, a, now)
                     = is_action_permitted_at(permissions, m, a, now)
        /\ StepOf("get_permissions") =>
             last'.result = Honoured(permissions, last'.arg, now)
      ]_vars

\* ---------------------------------------------------------------- C26
\* The step moves the clock or changes the table without being a
\* grant_permission call (the reads change neither).
ChangeWithoutGrant ==
    /\ permissions' # permissions \/ now' # now
    /\ ~(last'.op = "grant_permission" /\ permissions' # permissions)

\* The intents the grant table decides on.
GatedIntents == { i \in Intent : i.requires_permission /\ i.target_module # None }

\* C26: the passage of time, revoke_module and clear_expired never turn a
\* PolicyViolation for an intent into Ok, and a stored grant that the check
\* skips as expired is skipped at every later instant.
C26_OnlyGrantAuthorizes ==
    [][ ChangeWithoutGrant =>
          /\ \A intent \in GatedIntents :
                Denied(check_intent_at(permissions, allowed_modules, intent, now))
                   => Denied(check_intent_at(permissions', allowed_modules', intent, now'))
          /\ \A m \in Modules :
                \A g \in GrantsOf(m) : expired_in_check(g, now) => expired_in_check(g, now')
      ]_vars

\* clear_expired has removed grants and kept others, and the intent "device"
\* for the module "device" is refused after the call.
C26_Witness ==
    /\ last.op = "clear_expired"
    /\ last.result > 0
    /\ permissions # EmptyMap
    /\ Denied(check_intent_at(permissions, allowed_modules,
                              AsIntent("device", "device"), now))
    /\ PassesAllowList("device")

\* ---------------------------------------------------------------- C27
\* The grants a table stores under module m, as a set.
GrantsIn(table, m) ==
    IF m \in DOMAIN table
    THEN { table[m][k] : k \in 1 .. Len(table[m]) }
    ELSE {}

\* C27: check_intent authorizes a permission-requiring intent only if it
\* names a target module and a grant stored under that module covers its type
\* and has no expires_at before the evaluation time; a stored grant came in by
\* grant_permission, and after revoke_module(M) none is stored under M, so the
\* grant was added after the last revoke of its module; an engine without
\* grants authorizes no such intent.
C27_AuthorizedOnlyByLiveGrant ==
    /\ [] ( (Checked /\ last.arg.requires_permission /\ last.result = Ok)
            => /\ last.arg.target_module # None
               /\ \E g \in GrantsOf(GatedModule) :
                     /\ g.module = GatedModule
                     /\ GrantCovers(g, last.arg.intent_type)
                     /\ ~InPast(g, last.at) )
    /\ [][ /\ StepOf("revoke_module") => GrantsIn(permissions', last'.arg) = {}
           /\ ~StepOf("grant_permission") =>
                 \A m \in Modules : GrantsIn(permissions', m) \subseteq GrantsOf(m)
         ]_vars

\* check_intent has authorized an intent whose module holds an expired
\* covering grant first and a covering grant without expiry second.
C27_Witness ==
    /\ Gated
    /\ last.result = Ok
    /\ GatedModule \in DOMAIN permissions
    /\ Len(permissions[GatedModule]) = 2
    /\ GrantCovers(permissions[GatedModule][1], last.arg.intent_type)
    /\ InPast(permissions[GatedModule][1], last.at)
    /\ GrantCovers(permissions[GatedModule][2], last.arg.intent_type)
    /\ permissions[GatedModule][2].expires_at = None

\* ---------------------------------------------------------------- C28
\* The step is a call of one of the three read operations.
ReadStep ==
    \/ StepOf("check_intent")
    \/ StepOf("is_action_permitted")
    \/ StepOf("get_permissions")

\* Some module has fewer grants after the step than before.
GrantsRemoved ==
    \E m \in DOMAIN permissions :
        \/ m \notin DOMAIN permissions'
        \/ Len(permissions'[m]) < Len(permissions[m])

\* C28: check_intent, is_action_permitted and get_permissions leave the grant
\* table, expired grants included, and the allow-list as they were, whatever
\* they return; grants leave the table only in a clear_expired or
\* revoke_module call.
C28_ReadsLeaveEngineUnchanged ==
    [][ /\ ReadStep =>
             /\ permissions' = permissions
             /\ allowed_modules' = allowed_modules
             /\ StepOf("check_intent") => last'.arg \in Intent
        /\ GrantsRemoved => last'.op \in { "clear_expired", "revoke_module" }
      ]_vars

\* get_permissions has left out a grant it found expired, and the grant is
\* still stored.
C28_Witness ==
    /\ last.op = "get_permissions"
    /\ last.arg \in DOMAIN permissions
    /\ Len(last.result) < Len(permissions[last.arg])

\* ---------------------------------------------------------------- C29
\* Every check_intent and is_action_permitted answer for module m at the
\* instant of the step is the same before and after the step.
SameAnswersFor(m) ==
    \A ty \in IntentTypes :
        /\ check_intent_at(permissions', allowed_modules', AsIntent(m, ty), now')
             = check_intent_at(permissions, allowed_modules, AsIntent(m, ty), now)
        /\ is_action_permitted_at(permissions', m, ty, now')
             = is_action_permitted_at(permissions, m, ty, now)

\* C29: grants are isolated per module: without a live covering grant under
\* its own module an intent is refused whatever the other modules hold, and
\* grant_permission, revoke_module and the pruning of clear_expired applied
\* to another module leave every answer for the module as it was.
C29_ModulesIsolated ==
    /\ [] ( /\ (Gated /\ ~\E g \in GrantsOf(GatedModule) :
                             GrantCovers(g, last.arg.intent_type) /\ ~InPast(g, last.at))
               => Denied(last.result)
            /\ (Asked /\ ~\E g \in GrantsOf(AskedModule) :
                             GrantCovers(g, AskedAction) /\ ~InPast(g, last.at))
               => last.result = FALSE )
    /\ [][ /\ StepOf("grant_permission") =>
                \A m \in Modules \ { last'.arg.module } : SameAnswersFor(m)
           /\ StepOf("revoke_module") =>
                \A m \in Modules \ { last'.arg } : SameAnswersFor(m)
           /\ StepOf("clear_expired") =>
                \A m \in Modules :
                   (\A g \in GrantsOf(m) : retained(g, now)) => SameAnswersFor(m)
         ]_vars

\* An intent was refused although another module holds a live grant whose
\* action is the intent's type.
C29_Witness ==
    /\ Gated
    /\ PassesAllowList(GatedModule)
    /\ Denied(last.result)
    /\ \E m \in Modules \ { GatedModule } :
          \E g \in GrantsOf(m) :
             /\ vec_contains(g.actions, last.arg.intent_type)
             /\ ~InPast(g, last.at)

\* ---------------------------------------------------------------- C30
\* C30: every Intent generate returns whose target_module is one of the ten
\* sensitive modules has requires_permission true, so an engine holding no
\* grant refuses it.
C30_SensitiveTargetIsGated ==
    (GenOk /\ last.result.value.target_module \in { Some(m) : m \in SensitiveModules })
       => /\ last.result.value.requires_permission
          /\ Denied(check_intent_at(EmptyMap, << >>,
                       [ intent_type |-> last.result.value.intent_type,
                         requires_permission |-> last.result.value.requires_permission,
                         target_module |-> last.result.value.target_module ],
                       now))

====
